---- MODULE Spec2Model ----
(***************************************************************************)
(* A model of portfolio-analyzer's lot accounting (core/stock.py),         *)
(* portfolio aggregate (core/portfolio.py) and allocation optimizer        *)
(* (examples/advanced_optimization.py).                                    *)
(*                                                                         *)
(* Python floats are modelled as exact rationals [num, den] in lowest      *)
(* terms: prices, fees, costs and cash are rationals, share quantities are *)
(* integers.  A Python dict is modelled as a sequence of entries in        *)
(* insertion order, which is the order Python iterates it in.              *)
(* Transaction.date (datetime.now()) is not modelled: the position of an   *)
(* entry in the log is its time.                                           *)
(***************************************************************************)
EXTENDS Integers, Sequences, FiniteSets, TLC

\* ------------------------------------------------------------------ bounds

\* Share quantities of a call are drawn from 1..MaxShares.
MaxShares == 2
\* Calls that append to one holding's transaction log are accepted while the
\* log is shorter than MaxLog.
MaxLog == 2

\* Prices, fees and transaction types of the calls.
Prices == {[num |-> 1, den |-> 1], [num |-> 3, den |-> 1]}
Fees == {[num |-> 0, den |-> 1], [num |-> 1, den |-> 1]}
TransactionTypes == {"buy", "sell"}

\* Symbols as the callers spell them: sequences of characters.
SymbolInputs == {<<"a", "b">>, <<"A", "B">>, <<"G">>}

VARIABLES
    stock,      \* a Stock object used on its own (SpecStock)
    portfolio,  \* a Portfolio object (Spec): [name, cash, stocks]
    optimizer,  \* a PortfolioOptimizer object (SpecOptimizer):
                \* [returns_data, cov_matrix]
    result,     \* the last call: its name, its arguments, how it ended and
                \* what it returned
    cache,      \* a Stock's _cache: key -> value (SpecFeed)
    cache_time, \* a Stock's _cache_time: key -> time of storing
    now,        \* the clock, in seconds
    portfolios, \* the API's in-memory store: id -> Portfolio (SpecApi)
    requests    \* the API's requests in flight

feed == <<cache, cache_time, now>>
api == <<portfolios, requests>>
vars == <<stock, portfolio, optimizer, result, feed, api>>

\* A specification that has no Stock fetching and no API leaves these alone.
NoFeed == cache = <<>> /\ cache_time = <<>> /\ now = 0
NoApi == portfolios = <<>> /\ requests = <<>>

\* --------------------------------------------------------------- rationals

Abs(x) == IF x < 0 THEN -x ELSE x

RECURSIVE GCD(_, _)
GCD(a, b) == IF b = 0 THEN a ELSE GCD(b, a % b)

\* n/d in lowest terms with a positive denominator (d # 0).
Rat(n, d) ==
    LET g == GCD(Abs(n), Abs(d))
        s == IF d < 0 THEN -1 ELSE 1
    IN  [num |-> (s * n) \div g, den |-> (s * d) \div g]

RatInt(n) == [num |-> n, den |-> 1]
Zero == RatInt(0)
RatAdd(x, y) ==
    LET g == GCD(x.den, y.den)
    IN  Rat(x.num * (y.den \div g) + y.num * (x.den \div g),
            (x.den \div g) * y.den)
RatMul(x, y) == Rat(x.num * y.num, x.den * y.den)
\* x / y for y # 0
RatDiv(x, y) == Rat(x.num * y.den, x.den * y.num)
RatSub(x, y) == RatAdd(x, RatMul(RatInt(-1), y))
RatLt(x, y) ==
    LET g == GCD(x.den, y.den)
    IN  x.num * (y.den \div g) < y.num * (x.den \div g)
RatLe(x, y) ==
    LET g == GCD(x.den, y.den)
    IN  x.num * (y.den \div g) <= y.num * (x.den \div g)

\* ----------------------------------------------------------------- symbols

\* str.upper() on the characters the symbols are spelled with.
UpperChar(c) ==
    CASE c = "a" -> "A"
      [] c = "b" -> "B"
      [] c = "g" -> "G"
      [] OTHER -> c

upper(symbol) == [i \in DOMAIN symbol |-> UpperChar(symbol[i])]

\* ------------------------------------------------------------- Transaction

Transaction(shares, price, transaction_type, fees) ==
    [shares |-> shares, price |-> price,
     transaction_type |-> transaction_type, fees |-> fees]

\* Transaction.total_cost
total_cost(t) == RatAdd(RatMul(RatInt(t.shares), t.price), t.fees)

\* ------------------------------------------------------------------- Stock

\* add_transaction putting the new transaction at the head of the log.
add_transaction_newest_first(s, shares, price, transaction_type, fees) ==
    LET transaction == Transaction(shares, price, transaction_type, fees)
        logged == [s EXCEPT !.transactions = <<transaction>> \o @]
    IN  IF transaction_type = "buy"
        THEN LET cost == RatAdd(RatMul(RatInt(s.shares), s.purchase_price),
                                total_cost(transaction))
                 n == s.shares + shares
             IN  [stock |-> [logged EXCEPT
                                !.shares = n,
                                !.purchase_price =
                                    IF n > 0 THEN RatDiv(cost, RatInt(n))
                                    ELSE Zero],
                  raised |-> FALSE]
        ELSE IF transaction_type = "sell"
        THEN LET n == s.shares - shares
             IN  [stock |-> [logged EXCEPT !.shares = n], raised |-> n < 0]
        ELSE [stock |-> logged, raised |-> FALSE]

\* Stock.add_transaction: the Stock after the call and whether the call raised
\* ValueError.  The transaction is appended and the share count is updated
\* before the check that raises.
add_transaction(s, shares, price, transaction_type, fees) ==
    LET transaction == Transaction(shares, price, transaction_type, fees)
        logged == [s EXCEPT !.transactions = Append(@, transaction)]
    IN  IF transaction_type = "buy"
        THEN LET cost == RatAdd(RatMul(RatInt(s.shares), s.purchase_price),
                                total_cost(transaction))
                 n == s.shares + shares
             IN  [stock |-> [logged EXCEPT
                                !.shares = n,
                                !.purchase_price =
                                    IF n > 0 THEN RatDiv(cost, RatInt(n))
                                    ELSE Zero],
                  raised |-> FALSE]
        ELSE IF transaction_type = "sell"
        THEN LET n == s.shares - shares
             IN  [stock |-> [logged EXCEPT !.shares = n], raised |-> n < 0]
        ELSE [stock |-> logged, raised |-> FALSE]

\* Stock.__init__
Stock(symbol, shares, purchase_price) ==
    LET self == [symbol |-> upper(symbol),
                 shares |-> shares,
                 purchase_price |-> purchase_price,
                 transactions |-> <<>>]
    IN  IF shares > 0 /\ RatLt(Zero, purchase_price)
        THEN add_transaction(self, shares, purchase_price, "buy", Zero).stock
        ELSE self

\* Stock.total_invested
total_invested(s) == RatMul(RatInt(s.shares), s.purchase_price)

\* --------------------------------------------------------------- Portfolio

\* A dict: its entries [key, value] in insertion order.
Keys(d) == {d[i].key : i \in DOMAIN d}
Get(d, k) == d[CHOOSE i \in DOMAIN d : d[i].key = k].value
\* d[k] = v
Put(d, k, v) ==
    IF k \in Keys(d)
    THEN [i \in DOMAIN d |->
             IF d[i].key = k THEN [key |-> k, value |-> v] ELSE d[i]]
    ELSE Append(d, [key |-> k, value |-> v])
\* del d[k]
Del(d, k) == SelectSeq(d, LAMBDA e : e.key # k)

\* Portfolio.__init__
Portfolio(name, cash) == [name |-> name, cash |-> cash, stocks |-> <<>>]

\* add_stock deducting the cost whether or not the cash covers it.
add_stock_always_pays(self, symbol_arg, shares, purchase_price) ==
    LET symbol == upper(symbol_arg)
        stocks == IF symbol \in Keys(self.stocks)
                  THEN Put(self.stocks, symbol,
                           add_transaction(Get(self.stocks, symbol), shares,
                                           purchase_price, "buy", Zero).stock)
                  ELSE Put(self.stocks, symbol,
                           Stock(symbol, shares, purchase_price))
        cost == RatMul(RatInt(shares), purchase_price)
    IN  [self EXCEPT !.stocks = stocks, !.cash = RatSub(self.cash, cost)]

\* add_stock keying the holding by the symbol as it was given.
add_stock_keeps_case(self, symbol_arg, shares, purchase_price) ==
    LET symbol == symbol_arg
        stocks == IF symbol \in Keys(self.stocks)
                  THEN Put(self.stocks, symbol,
                           add_transaction(Get(self.stocks, symbol), shares,
                                           purchase_price, "buy", Zero).stock)
                  ELSE Put(self.stocks, symbol,
                           Stock(symbol, shares, purchase_price))
        cost == RatMul(RatInt(shares), purchase_price)
    IN  [self EXCEPT !.stocks = stocks,
                     !.cash = IF RatLe(cost, self.cash)
                              THEN RatSub(self.cash, cost)
                              ELSE self.cash]

\* Portfolio.add_stock
add_stock(self, symbol_arg, shares, purchase_price) ==
    LET symbol == upper(symbol_arg)
        stocks == IF symbol \in Keys(self.stocks)
                  THEN Put(self.stocks, symbol,
                           add_transaction(Get(self.stocks, symbol), shares,
                                           purchase_price, "buy", Zero).stock)
                  ELSE Put(self.stocks, symbol,
                           Stock(symbol, shares, purchase_price))
        cost == RatMul(RatInt(shares), purchase_price)
    IN  [self EXCEPT !.stocks = stocks,
                     !.cash = IF RatLe(cost, self.cash)
                              THEN RatSub(self.cash, cost)
                              ELSE self.cash]

\* Portfolio.remove_stock
remove_stock(self, symbol_arg) ==
    LET symbol == upper(symbol_arg)
    IN  IF symbol \in Keys(self.stocks)
        THEN [self EXCEPT !.stocks = Del(self.stocks, symbol)]
        ELSE self

\* sell_stock leaving the cash as it was.
sell_stock_keeps_cash(self, symbol_arg, shares, price) ==
    LET symbol == upper(symbol_arg)
    IN  IF symbol \notin Keys(self.stocks)
        THEN [portfolio |-> self, raised |-> TRUE]
        ELSE LET r == add_transaction(Get(self.stocks, symbol), shares, price,
                                      "sell", Zero)
                 sold == [self EXCEPT !.stocks = Put(self.stocks, symbol, r.stock)]
             IN  IF r.raised
                 THEN [portfolio |-> sold, raised |-> TRUE]
                 ELSE [portfolio |-> IF r.stock.shares = 0
                                     THEN remove_stock(sold, symbol)
                                     ELSE sold,
                       raised |-> FALSE]

\* sell_stock crediting the proceeds for a symbol that is not held.
sell_stock_any_symbol(self, symbol_arg, shares, price) ==
    LET symbol == upper(symbol_arg)
        paid == [self EXCEPT
                    !.cash = RatAdd(self.cash, RatMul(RatInt(shares), price))]
    IN  IF symbol \notin Keys(self.stocks)
        THEN [portfolio |-> paid, raised |-> FALSE]
        ELSE LET r == add_transaction(Get(self.stocks, symbol), shares, price,
                                      "sell", Zero)
                 sold == [paid EXCEPT !.stocks = Put(self.stocks, symbol, r.stock)]
             IN  IF r.raised
                 THEN [portfolio |-> [sold EXCEPT !.cash = self.cash],
                       raised |-> TRUE]
                 ELSE [portfolio |-> IF r.stock.shares = 0
                                     THEN remove_stock(sold, symbol)
                                     ELSE sold,
                       raised |-> FALSE]

\* Portfolio.sell_stock: the Portfolio after the call and whether the call
\* raised ValueError.  Stock.add_transaction changes the holding in place, so
\* what it did before raising stays in the portfolio.
sell_stock(self, symbol_arg, shares, price) ==
    LET symbol == upper(symbol_arg)
    IN  IF symbol \notin Keys(self.stocks)
        THEN [portfolio |-> self, raised |-> TRUE]
        ELSE LET r == add_transaction(Get(self.stocks, symbol), shares, price,
                                      "sell", Zero)
                 sold == [self EXCEPT !.stocks = Put(self.stocks, symbol, r.stock)]
                 paid == [sold EXCEPT
                             !.cash = RatAdd(sold.cash,
                                             RatMul(RatInt(shares), price))]
             IN  IF r.raised
                 THEN [portfolio |-> sold, raised |-> TRUE]
                 ELSE [portfolio |-> IF r.stock.shares = 0
                                     THEN remove_stock(paid, symbol)
                                     ELSE paid,
                       raised |-> FALSE]

\* Portfolio.to_dict, the snapshot Portfolio.save writes (creation_date and
\* metadata, which no operation of the model reads, left out).
to_dict(self) ==
    [name |-> self.name,
     cash |-> self.cash,
     stocks |-> [i \in DOMAIN self.stocks |->
                    [key |-> self.stocks[i].key,
                     value |-> [shares |-> self.stocks[i].value.shares,
                                purchase_price |->
                                    self.stocks[i].value.purchase_price]]]]

\* The loop of load adding every saved position as two buys.
RECURSIVE load_stocks_two_buys(_, _)
load_stocks_two_buys(self, items) ==
    IF items = <<>> THEN self
    ELSE load_stocks_two_buys(
             add_stock(add_stock(self, items[1].key, items[1].value.shares,
                                 items[1].value.purchase_price),
                       items[1].key, items[1].value.shares,
                       items[1].value.purchase_price),
             Tail(items))

\* The loop of Portfolio.load over data['stocks'].items()
RECURSIVE load_stocks(_, _)
load_stocks(self, items) ==
    IF items = <<>> THEN self
    ELSE load_stocks(add_stock(self, items[1].key, items[1].value.shares,
                                  items[1].value.purchase_price),
                     Tail(items))

\* Portfolio.load on the snapshot that save wrote
load(data) == load_stocks(Portfolio(data.name, data.cash), data.stocks)

\* Stock.current_value, with `price` what get_current_price returns
current_value(s, price) == RatMul(RatInt(s.shares), price)

RECURSIVE SumValues(_)
SumValues(d) ==
    IF d = <<>> THEN Zero ELSE RatAdd(d[1].value, SumValues(Tail(d)))

\* Portfolio.total_value, with quotes[symbol] what get_current_price returns
\* for that holding during this evaluation.
total_value(self, quotes) ==
    LET values == [i \in DOMAIN self.stocks |->
                      [key |-> self.stocks[i].key,
                       value |-> current_value(self.stocks[i].value,
                                               quotes[self.stocks[i].key])]]
    IN  RatAdd(SumValues(values), self.cash)

\* Portfolio.total_invested
Portfolio_total_invested(self) ==
    SumValues([i \in DOMAIN self.stocks |->
                  [key |-> self.stocks[i].key,
                   value |-> total_invested(self.stocks[i].value)]])

\* total_gain_loss leaving the cash in the gain.
total_gain_loss_with_cash(self, quotes) ==
    RatSub(total_value(self, quotes), Portfolio_total_invested(self))

\* Portfolio.total_gain_loss, with quotes[symbol] what get_current_price
\* returns for that holding in the one evaluation of total_value.
total_gain_loss(self, quotes) ==
    RatSub(RatSub(total_value(self, quotes), Portfolio_total_invested(self)),
           self.cash)

\* Portfolio.total_return
total_return(self, quotes) ==
    IF Portfolio_total_invested(self) = Zero THEN Zero
    ELSE RatMul(RatDiv(total_gain_loss(self, quotes),
                       Portfolio_total_invested(self)),
                RatInt(100))

CASH == <<"C", "A", "S", "H">>
Percent(part, total) == RatMul(RatDiv(part, total), RatInt(100))

\* Portfolio.get_allocation.  total_value reads every holding's price once
\* (quotes1) and the loop reads it again (quotes2).
get_allocation(self, quotes1, quotes2) ==
    LET total == total_value(self, quotes1)
        allocation ==
            [i \in DOMAIN self.stocks |->
                [key |-> self.stocks[i].key,
                 value |-> Percent(current_value(self.stocks[i].value,
                                                 quotes2[self.stocks[i].key]),
                                   total)]]
    IN  IF total = Zero THEN <<>>
        ELSE IF RatLt(Zero, self.cash)
        THEN Put(allocation, CASH, Percent(self.cash, total))
        ELSE allocation

\* ------------------------------------------------------ PortfolioOptimizer

\* What stands for Python's None.
None == "None"

\* PortfolioOptimizer.__init__.  The optimizer reads its portfolio in
\* prepare_data only, which is modelled by what it leaves in returns_data and
\* cov_matrix.
PortfolioOptimizer(p) == [returns_data |-> None, cov_matrix |-> None]

\* The positions, in order, of the holdings whose calculate_returns is not
\* empty; has_returns[i] tells it for the i-th holding.
RECURSIVE WithReturns(_, _)
WithReturns(has_returns, i) ==
    IF i > Len(has_returns) THEN <<>>
    ELSE IF has_returns[i]
    THEN <<i>> \o WithReturns(has_returns, i + 1)
    ELSE WithReturns(has_returns, i + 1)

\* prepare_data: returns_data has one column per holding whose returns are
\* not empty, in the order of the holdings, and is kept as its columns and
\* their means (returns_data.mean()), the only things the optimizer reads
\* from it; cov_matrix is the annualized covariance of the columns.  mean and
\* cov are the means and covariances of all the holdings' returns.
prepare_data(p, has_returns, mean, cov) ==
    LET kept == WithReturns(has_returns, 1)
    IN  [returns_data |->
             [columns |-> [k \in DOMAIN kept |-> p.stocks[kept[k]].key],
              mean |-> [k \in DOMAIN kept |-> mean[kept[k]]]],
         cov_matrix |-> [k \in DOMAIN kept |->
                            [l \in DOMAIN kept |-> cov[kept[k]][kept[l]]]]]

TradingDays == 252

RatAbs(x) == IF x.num < 0 THEN RatMul(RatInt(-1), x) ELSE x

RECURSIVE RatSum(_)
\* np.sum
RatSum(v) == IF v = <<>> THEN Zero ELSE RatAdd(v[1], RatSum(Tail(v)))

\* np.dot of two vectors, and of a matrix (a sequence of rows) and a vector
Dot(v, w) == RatSum([k \in DOMAIN v |-> RatMul(v[k], w[k])])
MatDot(m, w) == [k \in DOMAIN m |-> Dot(m[k], w)]

\* np.sqrt(x) for x >= 0: the non-negative number whose square is x, kept as
\* that square.  float('inf') is the value with inf set.
sqrt(x) == [sq |-> x, inf |-> FALSE]
Inf == [sq |-> Zero, inf |-> TRUE]
\* a < b for two such numbers
StdLt(a, b) == ~a.inf /\ (b.inf \/ RatLt(a.sq, b.sq))

\* weights = np.random.random(n); weights /= np.sum(weights), with `draw` what
\* np.random.random returned
Normalize(draw) == [k \in DOMAIN draw |-> RatDiv(draw[k], RatSum(draw))]

\* PortfolioOptimizer.calculate_portfolio_performance
calculate_portfolio_performance(self, weights) ==
    [returns |-> RatMul(Dot(self.returns_data.mean, weights),
                        RatInt(TradingDays)),
     std |-> sqrt(Dot(weights, MatDot(self.cov_matrix, weights)))]

\* dict(zip(columns, weights))
Zip(columns, weights) ==
    [k \in DOMAIN columns |-> [key |-> columns[k], value |-> weights[k]]]

\* sharpe = (portfolio_return - risk_free_rate) / portfolio_std, kept as its
\* numerator and its denominator.  portfolio_std is a numpy float: with no
\* asset it is 0 and the quotient is -inf or +inf by the sign of the
\* numerator (never 0/0 here, the risk-free rates being other than 0).
Sharpe(excess, std) == [excess |-> excess, std |-> std]

\* a < b for two Sharpe values: by sign, then by the squares.
SharpeLt(a, b) ==
    LET sa == RatMul(RatMul(a.excess, a.excess), b.std.sq)
        sb == RatMul(RatMul(b.excess, b.excess), a.std.sq)
    IN  IF a.excess.num < 0 /\ b.excess.num >= 0 THEN TRUE
        ELSE IF a.excess.num >= 0 /\ b.excess.num < 0 THEN FALSE
        ELSE IF a.excess.num >= 0 THEN RatLt(sa, sb)
        ELSE RatLt(sb, sa)

\* np.argmax over results[2]: the first (0-based) index of the maximum;
\* sharpes[i + 1] is results[2, i].
argmax(sharpes) ==
    CHOOSE i \in 0..(Len(sharpes) - 1) :
        /\ \A j \in 0..(Len(sharpes) - 1) :
              ~SharpeLt(sharpes[i + 1], sharpes[j + 1])
        /\ \A j \in 0..(i - 1) : SharpeLt(sharpes[j + 1], sharpes[i + 1])

\* PortfolioOptimizer.optimize_sharpe_ratio.  draws[i + 1] is what
\* np.random.random returned in iteration i of the loop; seeded[i] is what it
\* returns right after np.random.seed(i).
optimize_sharpe_ratio(self, risk_free_rate, draws, seeded) ==
    LET sharpes ==
            [i \in DOMAIN draws |->
                LET perf == calculate_portfolio_performance(
                                self, Normalize(draws[i]))
                IN  Sharpe(RatSub(perf.returns, risk_free_rate), perf.std)]
        max_sharpe_idx == argmax(sharpes)
        optimal_weights == Normalize(seeded[max_sharpe_idx])
    IN  [max_sharpe_idx |-> max_sharpe_idx,
         value |-> Zip(self.returns_data.columns, optimal_weights)]

\* The loop of optimize_min_variance retaining the weights of every iteration.
RECURSIVE min_variance_loop_keeps_last(_, _, _, _)
min_variance_loop_keeps_last(self, draws, i, best) ==
    IF i > Len(draws) THEN best
    ELSE LET weights == Normalize(draws[i])
             portfolio_std ==
                 calculate_portfolio_performance(self, weights).std
         IN  min_variance_loop_keeps_last(
                 self, draws, i + 1,
                 [min_variance |-> portfolio_std,
                  optimal_weights |-> weights, none |-> FALSE])

\* The loop of optimize_min_variance from iteration i - 1 on, with `best` its
\* min_variance and optimal_weights.
RECURSIVE min_variance_loop(_, _, _, _)
min_variance_loop(self, draws, i, best) ==
    IF i > Len(draws) THEN best
    ELSE LET weights == Normalize(draws[i])
             portfolio_std ==
                 calculate_portfolio_performance(self, weights).std
         IN  min_variance_loop(
                 self, draws, i + 1,
                 IF StdLt(portfolio_std, best.min_variance)
                 THEN [min_variance |-> portfolio_std,
                       optimal_weights |-> weights, none |-> FALSE]
                 ELSE best)

\* No weights retained yet: min_variance = float('inf'), optimal_weights = None
NoWeights == [min_variance |-> Inf, optimal_weights |-> <<>>, none |-> TRUE]

\* PortfolioOptimizer.optimize_min_variance: whether it returned normally and
\* the dict it returned.
optimize_min_variance(self, draws) ==
    LET best == min_variance_loop(self, draws, 1, NoWeights)
    IN  IF best.none
        THEN [status |-> "TypeError", value |-> <<>>]
        ELSE [status |-> "ok",
              value |-> Zip(self.returns_data.columns, best.optimal_weights)]

\* The absolute tolerance of optimize_target_return, 0.02
Tolerance == [num |-> 1, den |-> 50]

\* The loop of optimize_target_return accepting a return at exactly the
\* tolerance from the target.
RECURSIVE target_return_loop_inclusive(_, _, _, _, _)
target_return_loop_inclusive(self, target_return, draws, i, best) ==
    IF i > Len(draws) THEN best
    ELSE LET weights == Normalize(draws[i])
             perf == calculate_portfolio_performance(self, weights)
         IN  target_return_loop_inclusive(
                 self, target_return, draws, i + 1,
                 IF /\ RatLe(RatAbs(RatSub(perf.returns, target_return)),
                             Tolerance)
                    /\ StdLt(perf.std, best.min_variance)
                 THEN [min_variance |-> perf.std,
                       optimal_weights |-> weights,
                       none |-> FALSE]
                 ELSE best)



\* The loop of optimize_target_return from iteration i - 1 on.
RECURSIVE target_return_loop(_, _, _, _, _)
target_return_loop(self, target_return, draws, i, best) ==
    IF i > Len(draws) THEN best
    ELSE LET weights == Normalize(draws[i])
             perf == calculate_portfolio_performance(self, weights)
         IN  target_return_loop(
                 self, target_return, draws, i + 1,
                 IF /\ RatLt(RatAbs(RatSub(perf.returns, target_return)),
                             Tolerance)
                    /\ StdLt(perf.std, best.min_variance)
                 THEN [min_variance |-> perf.std,
                       optimal_weights |-> weights, none |-> FALSE]
                 ELSE best)

\* PortfolioOptimizer.optimize_target_return: whether it returned None and,
\* if not, the dict it returned.
optimize_target_return(self, target_return, draws) ==
    LET best == target_return_loop(self, target_return, draws, 1, NoWeights)
    IN  IF best.none
        THEN [none |-> TRUE, value |-> <<>>]
        ELSE [none |-> FALSE,
              value |-> Zip(self.returns_data.columns, best.optimal_weights)]

\* ------------------------------------------------- Portfolio: metrics

\* A float that is not a number (0/0, or the standard deviation of a series of
\* one value), and whether a float is one.
NaN == [nan |-> TRUE]
IsNaN(x) == "nan" \in DOMAIN x

RatMax(x, y) == IF RatLt(x, y) THEN y ELSE x

\* Series.mean()
Mean(returns) == RatDiv(RatSum(returns), RatInt(Len(returns)))

\* Series.std(): the sample standard deviation (ddof = 1), kept as its square;
\* it is NaN for a series of one value.
Std(returns) ==
    IF Len(returns) < 2 THEN NaN
    ELSE sqrt(RatDiv(RatSum([i \in DOMAIN returns |->
                                RatMul(RatSub(returns[i], Mean(returns)),
                                       RatSub(returns[i], Mean(returns)))]),
                     RatInt(Len(returns) - 1)))

\* (1 + returns).cumprod() at position i
RECURSIVE CumProd(_, _)
CumProd(returns, i) ==
    IF i = 1 THEN RatAdd(RatInt(1), returns[1])
    ELSE RatMul(CumProd(returns, i - 1), RatAdd(RatInt(1), returns[i]))

\* cumulative.expanding().max() at position i
RECURSIVE RunningMax(_, _)
RunningMax(cumulative, i) ==
    IF i = 1 THEN cumulative[1]
    ELSE RatMax(RunningMax(cumulative, i - 1), cumulative[i])

\* (cumulative - running_max) / running_max, element by element: a float
\* division, which gives NaN for 0/0 (the numerator is 0 whenever the
\* running maximum is).
Drawdown(returns) ==
    LET cumulative == [i \in DOMAIN returns |-> CumProd(returns, i)]
    IN  [i \in DOMAIN returns |->
            LET running_max == RunningMax(cumulative, i)
            IN  IF running_max = Zero THEN NaN
                ELSE RatDiv(RatSub(cumulative[i], running_max), running_max)]

\* Series.min(): the least of the values that are numbers, NaN if none is.
RECURSIVE SeriesMin(_)
SeriesMin(series) ==
    IF series = <<>> THEN NaN
    ELSE LET rest == SeriesMin(Tail(series))
         IN  IF IsNaN(series[1]) THEN rest
             ELSE IF IsNaN(rest) THEN series[1]
             ELSE IF RatLt(rest, series[1]) THEN rest
             ELSE series[1]

\* x * 100 for a float x
Times100(x) == IF IsNaN(x) THEN NaN ELSE RatMul(x, RatInt(100))

\* np.percentile(returns, q): linear interpolation between the order
\* statistics around position (n - 1) * q / 100.
percentile(returns, q) ==
    LET sorted == SortSeq(returns, LAMBDA a, b : RatLt(a, b))
        n == Len(returns)
        lower == ((n - 1) * q) \div 100
        fraction == Rat(((n - 1) * q) % 100, 100)
    IN  IF fraction = Zero THEN sorted[lower + 1]
        ELSE RatAdd(sorted[lower + 1],
                    RatMul(fraction,
                           RatSub(sorted[lower + 2], sorted[lower + 1])))

\* Portfolio.calculate_metrics, with `returns` what calculate_portfolio_returns
\* gave and `quotes` the prices read by total_return.  The volatility is kept
\* as its square, the Sharpe ratio as its numerator and denominator.
calculate_metrics(self, returns, quotes, risk_free_rate) ==
    IF returns = <<>>
    THEN <<[key |-> "total_return", value |-> total_return(self, quotes)],
           [key |-> "volatility", value |-> Zero],
           [key |-> "sharpe_ratio", value |-> Zero],
           [key |-> "max_drawdown", value |-> Zero],
           [key |-> "var_95", value |-> Zero]>>
    ELSE LET std == Std(returns)
             volatility == IF IsNaN(std) THEN NaN
                           ELSE sqrt(RatMul(std.sq, RatInt(TradingDays)))
             excess_return ==
                 RatSub(RatMul(Mean(returns), RatInt(TradingDays)),
                        risk_free_rate)
             sharpe_ratio == IF IsNaN(volatility) THEN NaN
                             ELSE IF volatility.sq # Zero
                             THEN Sharpe(excess_return, volatility)
                             ELSE Zero
             max_drawdown == SeriesMin(Drawdown(returns))
             var_95 == percentile(returns, 5)
         IN  <<[key |-> "total_return", value |-> total_return(self, quotes)],
               [key |-> "annualized_return",
                value |-> RatMul(RatMul(Mean(returns), RatInt(TradingDays)),
                                 RatInt(100))],
               [key |-> "volatility", value |-> volatility],
               [key |-> "sharpe_ratio", value |-> sharpe_ratio],
               [key |-> "max_drawdown", value |-> Times100(max_drawdown)],
               [key |-> "var_95", value |-> Times100(var_95)]>>

\* Portfolio.calculate_portfolio_returns.  `returns` is the weighted sum of
\* the holdings' daily returns, empty when no holding has any; a holding that
\* has returns is weighted by current_value / total_value, a division of
\* floats that raises when the total value is 0.
calculate_portfolio_returns(self, returns, quotes) ==
    IF self.stocks = <<>> \/ returns = <<>>
    THEN [raised |-> FALSE, value |-> <<>>]
    ELSE IF total_value(self, quotes) = Zero
    THEN [raised |-> TRUE, value |-> <<>>]
    ELSE [raised |-> FALSE, value |-> returns]

\* The sectors' values in get_sector_allocation: each holding's value is added
\* to its sector's entry, in the order of the holdings.
RECURSIVE SectorValues(_, _, _, _)
SectorValues(self, quotes, sector, n) ==
    IF n = 0 THEN <<>>
    ELSE LET sectors == SectorValues(self, quotes, sector, n - 1)
             k == self.stocks[n].key
             value == current_value(self.stocks[n].value, quotes[k])
         IN  IF sector[k] \in Keys(sectors)
             THEN Put(sectors, sector[k], RatAdd(Get(sectors, sector[k]), value))
             ELSE Put(sectors, sector[k], value)

\* Portfolio.get_sector_allocation.  total_value reads the prices once
\* (quotes1), the loop again (quotes2); the percentages divide by the total
\* without a test, so with a holding and a total of 0 the division raises.
get_sector_allocation(self, quotes1, quotes2, sector) ==
    LET total == total_value(self, quotes1)
        sectors == SectorValues(self, quotes2, sector, Len(self.stocks))
    IN  IF sectors # <<>> /\ total = Zero
        THEN [raised |-> TRUE, value |-> <<>>]
        ELSE [raised |-> FALSE,
              value |-> [i \in DOMAIN sectors |->
                            [key |-> sectors[i].key,
                             value |-> Percent(sectors[i].value, total)]]]

\* Stock.get_summary: the entries that depend on the holding and its quote.
get_summary(s, price, sector) ==
    <<[key |-> "symbol", value |-> s.symbol],
      [key |-> "shares", value |-> s.shares],
      [key |-> "current_price", value |-> price],
      [key |-> "current_value", value |-> current_value(s, price)],
      [key |-> "total_invested", value |-> total_invested(s)],
      [key |-> "sector", value |-> sector]>>

\* Portfolio.analyze: the report, or the exception that leaves it.
analyze(self, returns, quotes1, quotes2, sector, risk_free_rate) ==
    LET portfolio_returns == calculate_portfolio_returns(self, returns, quotes1)
        sector_allocation == get_sector_allocation(self, quotes1, quotes2, sector)
    IN  IF portfolio_returns.raised \/ sector_allocation.raised
        THEN [raised |-> TRUE, value |-> <<>>]
        ELSE [raised |-> FALSE,
              value |->
                <<[key |-> "name", value |-> self.name],
                  [key |-> "total_value", value |-> total_value(self, quotes1)],
                  [key |-> "total_invested",
                   value |-> Portfolio_total_invested(self)],
                  [key |-> "total_gain_loss",
                   value |-> total_gain_loss(self, quotes1)],
                  [key |-> "total_return", value |-> total_return(self, quotes1)],
                  [key |-> "cash", value |-> self.cash],
                  [key |-> "metrics",
                   value |-> calculate_metrics(self, portfolio_returns.value,
                                               quotes1, risk_free_rate)],
                  [key |-> "allocation",
                   value |-> get_allocation(self, quotes1, quotes2)],
                  [key |-> "sector_allocation",
                   value |-> sector_allocation.value],
                  [key |-> "stocks",
                   value |-> [i \in DOMAIN self.stocks |->
                                [key |-> self.stocks[i].key,
                                 value |-> get_summary(self.stocks[i].value,
                                                       quotes2[self.stocks[i].key],
                                                       sector[self.stocks[i].key])]]],
                  [key |-> "num_stocks", value |-> Len(self.stocks)]>>]

\* ------------------------------------------------- Stock: fetching

\* Python's None among the values a cache can hold, and the test `is None`.
NoneValue == [none |-> TRUE]
IsNone(x) == DOMAIN x = {"none"}

\* dict.get(key, default)
DictGet(d, key, default) == IF key \in Keys(d) THEN Get(d, key) ELSE default

\* Whether a value counts as true in `a or b`: neither None nor 0.
Truthy(x) == ~IsNone(x) /\ x # Zero

\* _cache and _cache_time are looked up by key and never iterated: they are
\* kept as functions.  d[key] = value:
Store(d, key, value) ==
    [k \in DOMAIN d \cup {key} |-> IF k = key THEN value ELSE d[k]]

\* Stock._get_cached at time t.  The stored value is returned while it is
\* younger than ttl seconds, None otherwise; a key of _cache that _cache_time
\* lacks has the age of datetime.min.
get_cached(data, times, t, key, ttl) ==
    IF key \in DOMAIN data
          /\ (key \in DOMAIN times /\ t - times[key] < ttl)
    THEN data[key]
    ELSE NoneValue

\* Stock._set_cache at time t
set_cache(data, times, t, key, value) ==
    [cache |-> Store(data, key, value), cache_time |-> Store(times, key, t)]

\* What a fetching method leaves and returns: the cache, the value, whether
\* the provider was contacted, whether it failed and whether the failure left
\* the method as an exception.
Fetched(data, times, value, contacted, failed) ==
    [cache |-> data, cache_time |-> times, value |-> value,
     contacted |-> contacted, failed |-> failed, raised |-> FALSE]

Served(data, times, value) == Fetched(data, times, value, FALSE, FALSE)

Stored(set, value) == Fetched(set.cache, set.cache_time, value, TRUE, FALSE)

\* get_current_price without its except clause.
get_current_price_propagates(data, times, t, info, fails) ==
    LET cached == get_cached(data, times, t, <<"current_price">>, 60)
    IN  IF ~IsNone(cached) THEN Served(data, times, cached)
        ELSE [cache |-> data, cache_time |-> times, value |-> NoneValue,
              contacted |-> TRUE, failed |-> fails, raised |-> fails]

\* Stock.get_current_price at time t.  `info` is what the provider answers
\* when it is contacted, `fails` whether it raises instead.
get_current_price(data, times, t, info, fails) ==
    LET cached == get_cached(data, times, t, <<"current_price">>, 60)
        current == DictGet(info, "currentPrice", NoneValue)
        price == IF Truthy(current) THEN current
                 ELSE DictGet(info, "regularMarketPrice", Zero)
    IN  IF ~IsNone(cached) THEN Served(data, times, cached)
        ELSE IF fails THEN Fetched(data, times, Zero, TRUE, TRUE)
        ELSE Stored(set_cache(data, times, t, <<"current_price">>, price), price)

\* Stock.get_info at time t
get_info(data, times, t, info, fails) ==
    LET cached == get_cached(data, times, t, <<"info">>, 3600)
    IN  IF ~IsNone(cached) THEN Served(data, times, cached)
        ELSE IF fails THEN Fetched(data, times, [dict |-> <<>>], TRUE, TRUE)
        ELSE Stored(set_cache(data, times, t, <<"info">>, [dict |-> info]),
                    [dict |-> info])

\* f'history_{period}_{interval}', strings being sequences of characters
cache_key(period, interval) ==
    <<"h", "i", "s", "t", "o", "r", "y", "_">> \o period \o <<"_">> \o interval

\* pd.DataFrame()
EmptyTable == [empty |-> TRUE]

\* Stock.get_historical_data at time t.  `history` is the table the provider
\* answers with when it is contacted.
get_historical_data(data, times, t, period, interval, history, fails) ==
    LET cached == get_cached(data, times, t, cache_key(period, interval), 3600)
    IN  IF ~IsNone(cached) THEN Served(data, times, cached)
        ELSE IF fails THEN Fetched(data, times, EmptyTable, TRUE, TRUE)
        ELSE Stored(set_cache(data, times, t, cache_key(period, interval),
                              history),
                    history)

\* ------------------------------------------------- the API's handlers

\* f"portfolio_{len(portfolios) + 1}"
portfolio_id(store) == <<"portfolio_", Len(store) + 1>>

\* Each handler is given the store as it was when the handler began (seen) and
\* as it is when the handler writes (store); it gives the store it leaves, the
\* status of the response and the id it used.
Response(store, status, id) == [portfolios |-> store, status |-> status, id |-> id]

\* On a portfolio of the store that is no longer there nothing is written.
Update(store, id, p) == IF id \in Keys(store) THEN Put(store, id, p) ELSE store

\* POST /portfolios
create_portfolio(seen, store, data) ==
    Response(Put(store, portfolio_id(seen), Portfolio(data.name, data.cash)),
             201, portfolio_id(seen))

\* POST /portfolios/{portfolio_id}/stocks
add_stock_to_portfolio(seen, store, data) ==
    IF data.portfolio_id \notin Keys(seen)
    THEN Response(store, 404, data.portfolio_id)
    ELSE Response(Update(store, data.portfolio_id,
                         add_stock(Get(seen, data.portfolio_id), data.symbol,
                                   data.shares, data.price)),
                  200, data.portfolio_id)

\* DELETE /portfolios/{portfolio_id}/stocks/{symbol}
remove_stock_from_portfolio(seen, store, data) ==
    IF data.portfolio_id \notin Keys(seen)
    THEN Response(store, 404, data.portfolio_id)
    ELSE IF upper(data.symbol) \notin Keys(Get(seen, data.portfolio_id).stocks)
    THEN Response(store, 404, data.portfolio_id)
    ELSE Response(Update(store, data.portfolio_id,
                         remove_stock(Get(seen, data.portfolio_id),
                                      upper(data.symbol))),
                  200, data.portfolio_id)

\* POST /portfolios/{portfolio_id}/sell; the portfolio is left as sell_stock
\* left it also when sell_stock raised ValueError.
api_sell_stock(seen, store, data) ==
    IF data.portfolio_id \notin Keys(seen)
    THEN Response(store, 404, data.portfolio_id)
    ELSE LET r == sell_stock(Get(seen, data.portfolio_id), data.symbol,
                             data.shares, data.price)
         IN  Response(Update(store, data.portfolio_id, r.portfolio),
                      IF r.raised THEN 400 ELSE 200, data.portfolio_id)

\* DELETE /portfolios/{portfolio_id}
delete_portfolio(seen, store, data) ==
    IF data.portfolio_id \notin Keys(seen)
    THEN Response(store, 404, data.portfolio_id)
    ELSE Response(Del(store, data.portfolio_id), 200, data.portfolio_id)

handler(op, seen, store, data) ==
    IF op = "create_portfolio" THEN create_portfolio(seen, store, data)
    ELSE IF op = "add_stock_to_portfolio"
    THEN add_stock_to_portfolio(seen, store, data)
    ELSE IF op = "remove_stock_from_portfolio"
    THEN remove_stock_from_portfolio(seen, store, data)
    ELSE IF op = "sell_stock" THEN api_sell_stock(seen, store, data)
    ELSE delete_portfolio(seen, store, data)

\* A handler that awaits between its reads and its writes.
Suspends_before_writing(op) == TRUE

\* Whether a handler gives up the event loop between its reads of the store
\* and its writes: every handler is an `async def` whose body has no await, so
\* none does.
Suspends(op) == FALSE

\* ------------------------------------------------------- the last call

Call(op, symbol, shares, price, transaction_type, fees, status) ==
    [op |-> op, symbol |-> symbol, shares |-> shares, price |-> price,
     transaction_type |-> transaction_type, fees |-> fees, status |-> status]

\* A call on the Portfolio, with what the portfolio was before it: whether it
\* held the symbol, and its cash.
PortfolioCall(op, symbol, shares, price, status, self) ==
    [op |-> op, symbol |-> symbol, shares |-> shares, price |-> price,
     status |-> status,
     held |-> upper(symbol) \in Keys(self.stocks),
     cash |-> self.cash]

\* ------------------------------------------- a Stock used on its own

InitStock ==
    /\ \E symbol \in SymbolInputs, shares \in 0..MaxShares,
          price \in {Zero} \cup Prices :
          /\ stock = Stock(symbol, shares, price)
          /\ result = Call("Stock", symbol, shares, price, "", Zero, "ok")
    /\ portfolio = Portfolio("", Zero)
    /\ optimizer = PortfolioOptimizer(Portfolio("", Zero))
    /\ NoFeed /\ NoApi

AddTransaction ==
    /\ Len(stock.transactions) < MaxLog
    /\ \E shares \in 1..MaxShares, price \in Prices,
          transaction_type \in TransactionTypes, fees \in Fees :
          LET r == add_transaction(stock, shares, price, transaction_type, fees)
          IN  /\ stock' = r.stock
              /\ result' = Call("add_transaction", stock.symbol, shares, price,
                                transaction_type, fees,
                                IF r.raised THEN "ValueError" ELSE "ok")
    /\ UNCHANGED <<portfolio, optimizer, feed, api>>

NextStock == AddTransaction

SpecStock == InitStock /\ [][NextStock]_vars

\* ------------------------------------------------------ a Portfolio

\* Calls that append to a transaction log are accepted while the logs of the
\* portfolio's holdings hold fewer than MaxTransactions entries together.
MaxTransactions == 2
\* Sells are accepted while they leave cash at most MaxCash.
MaxCash == 5

Names == {"Test Portfolio"}
InitialCash == {[num |-> -1, den |-> 1], [num |-> 4, den |-> 1]}
\* What Stock.get_current_price returns: the cached price while the cache
\* entry is younger than 60 s, else the provider's price, which is then
\* cached, or 0, which is not cached, when the provider fails.  Two reads of
\* one holding's price can therefore differ, and each is drawn from Quotes.
Quotes == {[num |-> 0, den |-> 1], [num |-> 2, den |-> 1]}

RECURSIVE TotalLogged(_)
TotalLogged(d) ==
    IF d = <<>> THEN 0
    ELSE Len(d[1].value.transactions) + TotalLogged(Tail(d))

Init ==
    /\ \E name \in Names, cash \in InitialCash :
          /\ portfolio = Portfolio(name, cash)
          /\ result = PortfolioCall("Portfolio", <<>>, 0, Zero, "ok",
                                    Portfolio(name, cash))
    /\ stock = Stock(<<"G">>, 0, Zero)
    /\ optimizer = PortfolioOptimizer(Portfolio("", Zero))
    /\ NoFeed /\ NoApi

AddStock ==
    /\ TotalLogged(portfolio.stocks) < MaxTransactions
    /\ \E symbol \in SymbolInputs, shares \in 1..MaxShares, price \in Prices :
          /\ portfolio' = add_stock(portfolio, symbol, shares, price)
          /\ result' = PortfolioCall("add_stock", symbol, shares, price, "ok",
                                     portfolio)
    /\ UNCHANGED <<stock, optimizer, feed, api>>

SellStock ==
    /\ \E symbol \in SymbolInputs, shares \in 1..MaxShares, price \in Prices :
          LET r == sell_stock(portfolio, symbol, shares, price)
          IN  /\ upper(symbol) \in Keys(portfolio.stocks) =>
                    TotalLogged(portfolio.stocks) < MaxTransactions
              /\ RatLe(r.portfolio.cash, RatInt(MaxCash))
              /\ portfolio' = r.portfolio
              /\ result' = PortfolioCall("sell_stock", symbol, shares, price,
                                         IF r.raised THEN "ValueError" ELSE "ok",
                                         portfolio)
    /\ UNCHANGED <<stock, optimizer, feed, api>>

RemoveStock ==
    /\ \E symbol \in SymbolInputs :
          /\ portfolio' = remove_stock(portfolio, symbol)
          /\ result' = PortfolioCall("remove_stock", symbol, 0, Zero, "ok",
                                     portfolio)
    /\ UNCHANGED <<stock, optimizer, feed, api>>

\* portfolio.save(filename) followed by Portfolio.load(filename): the snapshot
\* written and the Portfolio that load returns.
SaveLoad ==
    /\ result' = [op |-> "load", status |-> "ok",
                  file |-> to_dict(portfolio),
                  value |-> load(to_dict(portfolio))]
    /\ UNCHANGED <<stock, portfolio, optimizer, feed, api>>

GetAllocation ==
    /\ \E quotes1 \in [Keys(portfolio.stocks) -> Quotes],
          quotes2 \in [Keys(portfolio.stocks) -> Quotes] :
          result' = [op |-> "get_allocation", status |-> "ok",
                     total |-> total_value(portfolio, quotes1),
                     value |-> get_allocation(portfolio, quotes1, quotes2)]
    /\ UNCHANGED <<stock, portfolio, optimizer, feed, api>>

\* The portfolio's operations and its persistence.
Next ==
    \/ AddStock
    \/ SellStock
    \/ RemoveStock
    \/ SaveLoad

Spec == Init /\ [][Next]_vars

\* The portfolio's operations and its valuation.
NextValue ==
    \/ AddStock
    \/ SellStock
    \/ GetAllocation

SpecValue == Init /\ [][NextValue]_vars

\* ------------------------------------------- a Portfolio that is traded

\* Buys and sells are accepted while the logs of the portfolio's holdings hold
\* fewer than MaxTrades entries together.
MaxTrades == 3

TradeCash == {[num |-> 4, den |-> 1]}

InitTrade ==
    /\ \E name \in Names, cash \in TradeCash :
          /\ portfolio = Portfolio(name, cash)
          /\ result = PortfolioCall("Portfolio", <<>>, 0, Zero, "ok",
                                    Portfolio(name, cash))
    /\ stock = Stock(<<"G">>, 0, Zero)
    /\ optimizer = PortfolioOptimizer(Portfolio("", Zero))
    /\ NoFeed /\ NoApi

Buy ==
    /\ TotalLogged(portfolio.stocks) < MaxTrades
    /\ \E symbol \in SymbolInputs, shares \in 1..MaxShares, price \in Prices :
          /\ portfolio' = add_stock(portfolio, symbol, shares, price)
          /\ result' = PortfolioCall("add_stock", symbol, shares, price, "ok",
                                     portfolio)
    /\ UNCHANGED <<stock, optimizer, feed, api>>

Sell ==
    /\ TotalLogged(portfolio.stocks) < MaxTrades
    /\ \E symbol \in SymbolInputs, shares \in 1..MaxShares, price \in Prices :
          LET r == sell_stock(portfolio, symbol, shares, price)
          IN  /\ RatLe(r.portfolio.cash, RatInt(MaxCash))
              /\ portfolio' = r.portfolio
              /\ result' = PortfolioCall("sell_stock", symbol, shares, price,
                                         IF r.raised THEN "ValueError" ELSE "ok",
                                         portfolio)
    /\ UNCHANGED <<stock, optimizer, feed, api>>

NextTrade ==
    \/ Buy
    \/ Sell

SpecTrade == InitTrade /\ [][NextTrade]_vars

\* ------------------------------------- a Portfolio and its total return

\* total_return read on the portfolio, and on portfolios that differ from it
\* in their cash only, with the same prices.
TotalReturn ==
    /\ \E quotes \in [Keys(portfolio.stocks) -> Quotes] :
          result' = [op |-> "total_return", status |-> "ok",
                     quotes |-> quotes,
                     value |-> total_return(portfolio, quotes),
                     others |-> [cash \in InitialCash |->
                                    total_return([portfolio EXCEPT !.cash = cash],
                                                 quotes)]]
    /\ UNCHANGED <<stock, portfolio, optimizer, feed, api>>

NextReturn ==
    \/ AddStock
    \/ TotalReturn

SpecReturn == Init /\ [][NextReturn]_vars

\* ------------------------------------------- a PortfolioOptimizer

\* The loops of the optimizer make NumPortfolios iterations (10000 in the
\* source).
NumPortfolios == 3

\* What np.random.random returns for one asset, and np.random.random(n).
Uniforms == {[num |-> 1, den |-> 4], [num |-> 3, den |-> 4]}
Draws(n) == [1..n -> Uniforms]

\* calculate_returns of a holding is empty when the provider gave no price
\* history for it.
HasReturns == [1..2 -> BOOLEAN]
\* len(self.returns_data.columns)
NumAssets == Len(optimizer.returns_data.columns)

\* returns_data.mean(): the mean daily return of each asset.  Annualized they
\* are 11% and 19%, 12% and 20%, -10% and 20%.
MeanReturns ==
    {<<Rat(11, 25200), Rat(19, 25200)>>,
     <<Rat(12, 25200), Rat(20, 25200)>>,
     <<Rat(-10, 25200), Rat(20, 25200)>>}
\* cov_matrix: positive definite, so that every portfolio_std is > 0.
CovMatrices ==
    {<<<<Rat(4, 100), Rat(1, 100)>>, <<Rat(1, 100), Rat(9, 100)>>>>,
     <<<<Rat(9, 100), Zero>>, <<Zero, Rat(4, 100)>>>>}
RiskFreeRates == {Rat(2, 100)}
TargetReturns == {Rat(15, 100), Rat(50, 100)}

\* PortfolioOptimizer(portfolio) on a portfolio of two holdings, followed by
\* prepare_data.
InitOptimizer ==
    /\ \E name \in Names, cash \in TradeCash :
          portfolio = add_stock(add_stock(Portfolio(name, cash), <<"A", "B">>,
                                          1, RatInt(1)),
                                <<"G">>, 1, RatInt(1))
    /\ stock = Stock(<<"G">>, 0, Zero)
    /\ \E has_returns \in HasReturns, mean \in MeanReturns,
          cov \in CovMatrices :
          optimizer = prepare_data(portfolio, has_returns, mean, cov)
    /\ result = [op |-> "prepare_data", status |-> "ok"]
    /\ NoFeed /\ NoApi

PrepareData ==
    /\ \E has_returns \in HasReturns, mean \in MeanReturns,
          cov \in CovMatrices :
          optimizer' = prepare_data(portfolio, has_returns, mean, cov)
    /\ result' = [op |-> "prepare_data", status |-> "ok"]
    /\ UNCHANGED <<stock, portfolio, feed, api>>

\* The optimizations are called on data that was just prepared.  They read
\* returns_data and cov_matrix and leave them as they are.  Of the generators
\* that np.random.seed sets up, optimize_sharpe_ratio reads the first draw of
\* one, seeded[max_sharpe_idx]; every outcome is covered by letting that draw
\* be any of Draws(NumAssets).
OptimizeSharpeRatio ==
    /\ result.op = "prepare_data"
    /\ \E risk_free_rate \in RiskFreeRates,
          draws \in [1..NumPortfolios -> Draws(NumAssets)],
          first \in Draws(NumAssets) :
          LET seeded == [seed \in 0..(NumPortfolios - 1) |-> first]
              r == optimize_sharpe_ratio(optimizer, risk_free_rate, draws,
                                         seeded)
          IN  result' = [op |-> "optimize_sharpe_ratio", status |-> "ok",
                         risk_free_rate |-> risk_free_rate, draws |-> draws,
                         max_sharpe_idx |-> r.max_sharpe_idx,
                         value |-> r.value]
    /\ UNCHANGED <<stock, portfolio, optimizer, feed, api>>

OptimizeMinVariance ==
    /\ result.op = "prepare_data"
    /\ \E draws \in [1..NumPortfolios -> Draws(NumAssets)] :
          LET r == optimize_min_variance(optimizer, draws)
          IN  result' = [op |-> "optimize_min_variance", status |-> r.status,
                         draws |-> draws, value |-> r.value]
    /\ UNCHANGED <<stock, portfolio, optimizer, feed, api>>

OptimizeTargetReturn ==
    /\ result.op = "prepare_data"
    /\ \E target_return \in TargetReturns,
          draws \in [1..NumPortfolios -> Draws(NumAssets)] :
          LET r == optimize_target_return(optimizer, target_return, draws)
          IN  result' = [op |-> "optimize_target_return", status |-> "ok",
                         target_return |-> target_return, draws |-> draws,
                         none |-> r.none, value |-> r.value]
    /\ UNCHANGED <<stock, portfolio, optimizer, feed, api>>

NextOptimizer ==
    \/ PrepareData
    \/ OptimizeSharpeRatio
    \/ OptimizeMinVariance
    \/ OptimizeTargetReturn

SpecOptimizer == InitOptimizer /\ [][NextOptimizer]_vars

\* ------------------------------------------- a Portfolio and its reports

\* The longest returns series.
MaxDays == 2
\* Daily returns: a loss of everything, a loss of half, none, a gain of half.
ReturnValues == {[num |-> -1, den |-> 1], [num |-> -1, den |-> 2],
                 [num |-> 0, den |-> 1], [num |-> 1, den |-> 2]}
ReturnSeries == UNION {[1..n -> ReturnValues] : n \in 0..MaxDays}
\* What info.get('sector', 'Unknown') gives; 'Unknown' when the provider fails.
Sectors == {"Unknown", "Technology"}
ReportCash == {[num |-> 0, den |-> 1], [num |-> 4, den |-> 1]}
\* The holdings bought before the reports are asked for, one share of each.
Holdings == {<<>>, <<<<"G">>>>, <<<<"G">>, <<"A", "B">>>>}

RECURSIVE Bought(_, _, _)
Bought(self, symbols, price) ==
    IF symbols = <<>> THEN self
    ELSE Bought(add_stock(self, symbols[1], 1, price), Tail(symbols), price)

InitReport ==
    /\ \E name \in Names, cash \in ReportCash, symbols \in Holdings,
          price \in Prices :
          /\ portfolio = Bought(Portfolio(name, cash), symbols, price)
          /\ result = [op |-> "Portfolio", status |-> "ok"]
    /\ stock = Stock(<<"G">>, 0, Zero)
    /\ optimizer = PortfolioOptimizer(Portfolio("", Zero))
    /\ NoFeed /\ NoApi

\* The returns series a portfolio can have: none without holdings.
PortfolioReturns == IF portfolio.stocks = <<>> THEN {<<>>} ELSE ReturnSeries

\* A report changes nothing of the portfolio: each is asked for once, of the
\* portfolio as it was built.
CalculateMetrics ==
    /\ result.op = "Portfolio"
    /\ \E returns \in PortfolioReturns,
          quotes \in [Keys(portfolio.stocks) -> Quotes],
          risk_free_rate \in RiskFreeRates :
          LET r == calculate_portfolio_returns(portfolio, returns, quotes)
          IN  result' = [op |-> "calculate_metrics",
                         status |-> IF r.raised THEN "ZeroDivisionError"
                                    ELSE "ok",
                         returns |-> r.value,
                         value |-> IF r.raised THEN <<>>
                                   ELSE calculate_metrics(portfolio, r.value,
                                                          quotes,
                                                          risk_free_rate)]
    /\ UNCHANGED <<stock, portfolio, optimizer, feed, api>>

Analyze ==
    /\ result.op = "Portfolio"
    /\ \E returns \in PortfolioReturns,
          quotes1 \in [Keys(portfolio.stocks) -> Quotes],
          quotes2 \in [Keys(portfolio.stocks) -> Quotes],
          sector \in [Keys(portfolio.stocks) -> Sectors],
          risk_free_rate \in RiskFreeRates :
          LET r == analyze(portfolio, returns, quotes1, quotes2, sector,
                           risk_free_rate)
          IN  result' = [op |-> "analyze",
                         status |-> IF r.raised THEN "ZeroDivisionError"
                                    ELSE "ok",
                         quotes |-> quotes1,
                         value |-> r.value]
    /\ UNCHANGED <<stock, portfolio, optimizer, feed, api>>

NextReport ==
    \/ CalculateMetrics
    \/ Analyze

SpecReport == InitReport /\ [][NextReport]_vars

\* ------------------------------------------- a Stock and its provider

\* The times at which the stock is asked, in seconds: around the ages of 60 s
\* and 3600 s.
Times == {0, 59, 60, 3600}
\* ticker.info as the provider answers: a current price, a regular market
\* price that is None, and neither.
Infos == {<<[key |-> "currentPrice", value |-> [num |-> 2, den |-> 1]]>>,
          <<[key |-> "regularMarketPrice", value |-> NoneValue]>>,
          <<>>}
\* The (period, interval) pairs the history is asked for.
HistoryArgs == {<<<<"1", "y">>, <<"1", "d">>>>,
                <<<<"1", "m", "o">>, <<"1", "d">>>>}
\* ticker.history(period, interval) asked at time t
History(period, interval, t) ==
    [empty |-> FALSE, period |-> period, interval |-> interval, asked |-> t]

InitFeed ==
    /\ stock = Stock(<<"G">>, 0, Zero)
    /\ portfolio = Portfolio("", Zero)
    /\ optimizer = PortfolioOptimizer(Portfolio("", Zero))
    /\ cache = <<>>
    /\ cache_time = <<>>
    /\ now = 0
    /\ result = [op |-> "Stock", status |-> "ok"]
    /\ NoApi

\* The result of a fetching method: the call, what it returned and what the
\* cache held when it was made.
FetchCall(op, key, r) ==
    [op |-> op, key |-> key, time |-> now,
     status |-> IF r.raised THEN "Exception" ELSE "ok",
     value |-> r.value, contacted |-> r.contacted, failed |-> r.failed,
     held |-> key \in DOMAIN cache,
     stored |-> IF key \in DOMAIN cache THEN cache[key] ELSE NoneValue,
     stored_at |-> IF key \in DOMAIN cache_time THEN cache_time[key] ELSE 0]

GetCurrentPrice ==
    /\ \E info \in Infos, fails \in BOOLEAN :
          LET r == get_current_price(cache, cache_time, now, info, fails)
          IN  /\ cache' = r.cache
              /\ cache_time' = r.cache_time
              /\ result' = FetchCall("get_current_price", <<"current_price">>, r)
    /\ UNCHANGED <<stock, portfolio, optimizer, now, api>>

GetInfo ==
    /\ \E info \in Infos, fails \in BOOLEAN :
          LET r == get_info(cache, cache_time, now, info, fails)
          IN  /\ cache' = r.cache
              /\ cache_time' = r.cache_time
              /\ result' = FetchCall("get_info", <<"info">>, r)
    /\ UNCHANGED <<stock, portfolio, optimizer, now, api>>

GetHistoricalData ==
    /\ \E args \in HistoryArgs, fails \in BOOLEAN :
          LET period == args[1]
              interval == args[2]
              r == get_historical_data(cache, cache_time, now, period, interval,
                                       History(period, interval, now), fails)
          IN  /\ cache' = r.cache
              /\ cache_time' = r.cache_time
              /\ result' = FetchCall("get_historical_data",
                                     cache_key(period, interval), r)
    /\ UNCHANGED <<stock, portfolio, optimizer, now, api>>

\* Time passes between two calls.
Sleep ==
    /\ \E t \in Times :
          /\ t > now
          /\ now' = t
    /\ result' = [op |-> "sleep", status |-> "ok"]
    /\ UNCHANGED <<stock, portfolio, optimizer, cache, cache_time, api>>

NextFeed ==
    \/ GetCurrentPrice
    \/ GetInfo
    \/ GetHistoricalData
    \/ Sleep

SpecFeed == InitFeed /\ [][NextFeed]_vars

\* ------------------------------------------- the API and its requests

\* The number of requests in flight together.
MaxRequests == 3

\* The store the requests are submitted to: one portfolio with a holding.
Submitted ==
    add_stock_to_portfolio(
        create_portfolio(<<>>, <<>>, [name |-> "Test Portfolio",
                                      cash |-> RatInt(4)]).portfolios,
        create_portfolio(<<>>, <<>>, [name |-> "Test Portfolio",
                                      cash |-> RatInt(4)]).portfolios,
        [portfolio_id |-> <<"portfolio_", 1>>, symbol |-> <<"G">>,
         shares |-> 1, price |-> RatInt(1)]).portfolios

\* The mutating requests.
Requests ==
    {[op |-> "create_portfolio",
      data |-> [name |-> "Growth", cash |-> RatInt(0)]],
     [op |-> "add_stock_to_portfolio",
      data |-> [portfolio_id |-> <<"portfolio_", 1>>, symbol |-> <<"G">>,
                shares |-> 1, price |-> RatInt(3)]],
     [op |-> "remove_stock_from_portfolio",
      data |-> [portfolio_id |-> <<"portfolio_", 1>>, symbol |-> <<"G">>]],
     [op |-> "sell_stock",
      data |-> [portfolio_id |-> <<"portfolio_", 1>>, symbol |-> <<"G">>,
                shares |-> 1, price |-> RatInt(3)]],
     [op |-> "delete_portfolio",
      data |-> [portfolio_id |-> <<"portfolio_", 1>>]]}

InitApi ==
    /\ stock = Stock(<<"G">>, 0, Zero)
    /\ portfolio = Portfolio("", Zero)
    /\ optimizer = PortfolioOptimizer(Portfolio("", Zero))
    /\ NoFeed
    /\ portfolios = Submitted
    /\ \E submitted \in [1..MaxRequests -> Requests] :
          requests = [i \in 1..MaxRequests |->
                         [op |-> submitted[i].op, data |-> submitted[i].data,
                          pc |-> "submitted", seen |-> <<>>]]
    /\ result = [op |-> "submit", status |-> 0]

\* The event loop runs one of the handlers in flight until it suspends or
\* returns.
Run ==
    /\ \E i \in DOMAIN requests :
          LET request == requests[i]
          IN  /\ request.pc # "done"
              /\ IF request.pc = "submitted" /\ Suspends(request.op)
                 THEN /\ requests' = [requests EXCEPT ![i].pc = "suspended",
                                                      ![i].seen = portfolios]
                      /\ UNCHANGED <<portfolios, result>>
                 ELSE LET seen == IF request.pc = "suspended" THEN request.seen
                                  ELSE portfolios
                          r == handler(request.op, seen, portfolios,
                                       request.data)
                      IN  /\ portfolios' = r.portfolios
                          /\ requests' = [requests EXCEPT ![i].pc = "done",
                                                          ![i].seen = <<>>]
                          /\ result' = [op |-> request.op, status |-> r.status,
                                        portfolio_id |-> r.id,
                                        before |-> portfolios]
    /\ UNCHANGED <<stock, portfolio, optimizer, feed>>

NextApi == Run

SpecApi == InitApi /\ [][NextApi]_vars

\* ------------------------------------------------ lot accounting: claims

IsBuy(t) == t.transaction_type = "buy"

RECURSIVE SumShares(_)
SumShares(log) ==
    IF log = <<>> THEN 0 ELSE log[1].shares + SumShares(Tail(log))

RECURSIVE SumCost(_)
SumCost(log) ==
    IF log = <<>> THEN Zero
    ELSE RatAdd(total_cost(log[1]), SumCost(Tail(log)))

OversoldCall(r, held) ==
    /\ r.op = "add_transaction"
    /\ r.transaction_type = "sell"
    /\ r.shares > held

\* C1: a sell of more shares than the holding has raises an error, and after
\* the error the holding's share count and average cost are what they were
\* before the call.
C1_OversellLeavesHoldingUnchanged ==
    [][OversoldCall(result', stock.shares) =>
          /\ result'.status = "ValueError"
          /\ stock'.shares = stock.shares
          /\ stock'.purchase_price = stock.purchase_price]_vars

\* A sell of more shares than held has been rejected.
C1_OversellRejected ==
    /\ result.op = "add_transaction"
    /\ result.transaction_type = "sell"
    /\ result.status = "ValueError"

\* C2: in every reachable state of a holding, whatever calls were accepted or
\* rejected, its share count is >= 0.
C2_SharesNeverNegative == stock.shares >= 0

\* C3: a call to add_transaction that raises leaves the transaction log as it
\* was: same length, same entries.
C3_FailedCallDoesNotAppend ==
    [][result'.status = "ValueError" =>
          stock'.transactions = stock.transactions]_vars

\* C4: Stock(symbol, shares=s, purchase_price=p) with s > 0 and p > 0 has share
\* count s, average cost p, total_invested s*p and a log of exactly one buy of
\* s shares at p.
C4_ConstructedHolding ==
    (result.op = "Stock" /\ result.shares > 0 /\ RatLt(Zero, result.price)) =>
        /\ stock.shares = result.shares
        /\ stock.purchase_price = result.price
        /\ total_invested(stock) = RatMul(RatInt(result.shares), result.price)
        /\ stock.transactions =
               <<Transaction(result.shares, result.price, "buy", Zero)>>

\* A holding has been constructed with a position.
C4_Constructed ==
    result.op = "Stock" /\ result.shares > 0 /\ RatLt(Zero, result.price)

\* The log holds buys only, none with fees, the first of them the position
\* given at creation.
OnlyBuys(log) ==
    /\ log # <<>>
    /\ \A i \in DOMAIN log : IsBuy(log[i]) /\ log[i].fees = Zero

\* C5: after buys only (the position given at creation being the first), the
\* share count is the sum of the bought quantities and the average cost is the
\* volume-weighted mean of the (price, shares) pairs, which makes the result
\* the same for every ordering of the buys.
C5_BuysGiveVolumeWeightedMean ==
    OnlyBuys(stock.transactions) =>
        /\ stock.shares = SumShares(stock.transactions)
        /\ stock.purchase_price =
               RatDiv(SumCost(stock.transactions),
                      RatInt(SumShares(stock.transactions)))

\* A buy has followed the position given at creation.
C5_TwoBuys ==
    /\ result.op = "add_transaction"
    /\ OnlyBuys(stock.transactions) /\ Len(stock.transactions) = 2

Last(log) == log[Len(log)]

\* shares*price + fees of a call
BuyCost(r) == RatAdd(RatMul(RatInt(r.shares), r.price), r.fees)

\* C6: a buy of `shares` at `price` with `fees` on a holding of old_shares at
\* old_avg_cost leaves old_shares + shares shares at the average cost
\* (old_shares*old_avg_cost + shares*price + fees) / (old_shares + shares).
C6_BuyAverageCost ==
    [][(result'.op = "add_transaction" /\ result'.transaction_type = "buy") =>
          /\ stock'.shares = stock.shares + result'.shares
          /\ total_cost(Last(stock'.transactions)) = BuyCost(result')
          /\ stock.shares + result'.shares # 0 =>
                stock'.purchase_price =
                    RatDiv(RatAdd(RatMul(RatInt(stock.shares),
                                         stock.purchase_price),
                                  BuyCost(result')),
                           RatInt(stock.shares + result'.shares))]_vars

\* A buy with fees has been recorded.
C6_BuyWithFees ==
    /\ result.op = "add_transaction"
    /\ result.transaction_type = "buy"
    /\ RatLt(Zero, result.fees)

\* ----------------------------------------------------- portfolio: claims

SameSymbol(a, b) == upper(a) = upper(b)

\* C7: after add_stock(sym, n, p) on a portfolio that does not hold sym,
\* sell_stock(sym, n, price) succeeds and sym is no longer a key of the
\* holdings.
C7_SellAllRemovesHolding ==
    [][(/\ result.op = "add_stock"
        /\ ~result.held
        /\ result'.op = "sell_stock"
        /\ SameSymbol(result'.symbol, result.symbol)
        /\ result'.shares = result.shares) =>
          /\ result'.status = "ok"
          /\ upper(result.symbol) \notin Keys(portfolio'.stocks)]_vars

\* What load returned has the name, the cash, the symbols and each symbol's
\* share count and average cost of the portfolio p.
SamePositions(l, p) ==
    /\ l.name = p.name
    /\ l.cash = p.cash
    /\ Keys(l.stocks) = Keys(p.stocks)
    /\ \A k \in Keys(p.stocks) :
          /\ Get(l.stocks, k).shares = Get(p.stocks, k).shares
          /\ Get(l.stocks, k).purchase_price = Get(p.stocks, k).purchase_price

\* C8: load(save(portfolio)) has the same name, cash and symbols as the saved
\* portfolio, and for each symbol the same share count and average cost.
C8_RoundTrip ==
    result.op = "load" => SamePositions(result.value, portfolio)

\* |x - 100| <= 0.01
Near100(x) ==
    /\ RatLe(RatSub(x, RatInt(100)), Rat(1, 100))
    /\ RatLe(RatSub(RatInt(100), x), Rat(1, 100))

\* C9: whenever the portfolio's total value is > 0, the values get_allocation
\* returns sum to 100 within 0.01, and 'CASH' is among them exactly if
\* cash > 0.
C9_AllocationSumsTo100 ==
    (result.op = "get_allocation" /\ RatLt(Zero, result.total)) =>
        /\ Near100(SumValues(result.value))
        /\ CASH \in Keys(result.value) <=> RatLt(Zero, portfolio.cash)

\* shares * price of a call on the portfolio
CallCost(r) == RatMul(RatInt(r.shares), r.price)

\* C10: add_stock(symbol, shares, price) always creates or extends the holding
\* (it is held afterwards, with this buy the last entry of its log, and with
\* `shares` more shares than before if it was held), and cash decreases by
\* exactly shares*price if cash >= shares*price before the call and is
\* unchanged otherwise.
C10_AddStockCash ==
    [][result'.op = "add_stock" =>
          LET symbol == upper(result'.symbol)
              cost == CallCost(result')
          IN  /\ result'.status = "ok"
              /\ symbol \in Keys(portfolio'.stocks)
              /\ Last(Get(portfolio'.stocks, symbol).transactions) =
                     Transaction(result'.shares, result'.price, "buy", Zero)
              /\ symbol \in Keys(portfolio.stocks) =>
                     /\ Get(portfolio'.stocks, symbol).shares =
                            Get(portfolio.stocks, symbol).shares + result'.shares
                     /\ Get(portfolio'.stocks, symbol).transactions =
                            Append(Get(portfolio.stocks, symbol).transactions,
                                   Transaction(result'.shares, result'.price,
                                               "buy", Zero))
              /\ symbol \notin Keys(portfolio.stocks) =>
                     Keys(portfolio'.stocks) = Keys(portfolio.stocks) \cup {symbol}
              /\ portfolio'.cash =
                     IF RatLe(cost, portfolio.cash)
                     THEN RatSub(portfolio.cash, cost)
                     ELSE portfolio.cash]_vars

\* add_stock has extended a holding for more than the cash there was.
C10_BoughtWithoutFunds ==
    /\ result.op = "add_stock"
    /\ result.held
    /\ RatLt(Zero, result.cash)
    /\ RatLt(result.cash, CallCost(result))
    /\ portfolio.cash = result.cash

\* ------------------------------------------------ selling: claims

\* C11: a successful sell_stock(symbol, n, price), n not exceeding the held
\* share count, decreases that holding's share count by exactly n (the holding
\* leaves the portfolio when the count reaches 0), increases cash by exactly
\* n*price, and leaves the holding's average cost and every other holding
\* unchanged.
C11_SellTakesSharesAddsCash ==
    [][(result'.op = "sell_stock" /\ result'.status = "ok") =>
          LET symbol == upper(result'.symbol)
              before == Get(portfolio.stocks, symbol)
          IN  /\ symbol \in Keys(portfolio.stocks)
              /\ result'.shares <= before.shares
              /\ portfolio'.cash = RatAdd(portfolio.cash, CallCost(result'))
              /\ IF symbol \in Keys(portfolio'.stocks)
                 THEN LET after == Get(portfolio'.stocks, symbol)
                      IN  /\ after.shares = before.shares - result'.shares
                          /\ after.purchase_price = before.purchase_price
                 ELSE before.shares - result'.shares = 0
              /\ Keys(portfolio.stocks) \ {symbol} =
                     Keys(portfolio'.stocks) \ {symbol}
              /\ \A k \in Keys(portfolio.stocks) \ {symbol} :
                     Get(portfolio'.stocks, k) = Get(portfolio.stocks, k)]_vars

\* Part of one of two holdings has been sold.
C11_SoldPartOfOneOfTwo ==
    /\ result.op = "sell_stock"
    /\ result.status = "ok"
    /\ upper(result.symbol) \in Keys(portfolio.stocks)
    /\ Len(portfolio.stocks) = 2

\* C12: sell_stock on a symbol that is not a key of the holdings fails with an
\* error and leaves the portfolio's cash and holdings mapping unchanged.
C12_SellAbsentSymbolFails ==
    [][(/\ result'.op = "sell_stock"
        /\ upper(result'.symbol) \notin Keys(portfolio.stocks)) =>
          /\ result'.status = "ValueError"
          /\ portfolio'.cash = portfolio.cash
          /\ portfolio'.stocks = portfolio.stocks]_vars

\* A sell of a symbol that is not held, in a portfolio that holds another, has
\* been rejected.
C12_AbsentSymbolRejected ==
    /\ result.op = "sell_stock"
    /\ ~result.held
    /\ result.status = "ValueError"
    /\ portfolio.stocks # <<>>

\* C13: a sell_stock call rejected for selling more shares than held causes no
\* partial mutation: after the error, cash, the set of held symbols, and the
\* holding's share count, average cost and transaction log equal their values
\* before the call.
C13_RejectedSellChangesNothing ==
    [][(/\ result'.op = "sell_stock"
        /\ upper(result'.symbol) \in Keys(portfolio.stocks)
        /\ result'.shares > Get(portfolio.stocks, upper(result'.symbol)).shares) =>
          LET symbol == upper(result'.symbol)
              before == Get(portfolio.stocks, symbol)
              after == Get(portfolio'.stocks, symbol)
          IN  /\ result'.status = "ValueError"
              /\ portfolio'.cash = portfolio.cash
              /\ Keys(portfolio'.stocks) = Keys(portfolio.stocks)
              /\ after.shares = before.shares
              /\ after.purchase_price = before.purchase_price
              /\ after.transactions = before.transactions]_vars

\* A sell of more shares than held has been rejected by the portfolio.
C13_PortfolioOversellRejected ==
    /\ result.op = "sell_stock"
    /\ result.held
    /\ result.status = "ValueError"

\* Every key is uppercase, is the symbol of its Stock, and no two keys differ
\* only by case.
CaseNormalized(d) ==
    \A i \in DOMAIN d :
        /\ upper(d[i].key) = d[i].key
        /\ d[i].value.symbol = d[i].key
        /\ \A j \in DOMAIN d : upper(d[i].key) = upper(d[j].key) => i = j

\* C14: every key of the holdings mapping is uppercase, and add_stock,
\* sell_stock and remove_stock called with any letter-casing of a symbol act on
\* the one holding keyed by the uppercase symbol, so no two keys differ only by
\* case.
C14_SymbolsCaseNormalized ==
    [][/\ CaseNormalized(portfolio'.stocks)
       /\ result'.op \in {"add_stock", "sell_stock", "remove_stock"} =>
             LET symbol == upper(result'.symbol)
             IN  /\ result'.op = "add_stock" => symbol \in Keys(portfolio'.stocks)
                 /\ result'.op = "remove_stock" =>
                        symbol \notin Keys(portfolio'.stocks)
                 /\ (result'.op = "sell_stock" /\ result'.status = "ok") =>
                        symbol \in Keys(portfolio.stocks)
                 /\ Keys(portfolio'.stocks) \ {symbol} =
                        Keys(portfolio.stocks) \ {symbol}
                 /\ \A k \in Keys(portfolio.stocks) \ {symbol} :
                        Get(portfolio'.stocks, k) = Get(portfolio.stocks, k)]_vars

\* A holding keyed in uppercase has been extended by an add_stock that spelled
\* the symbol in lowercase.
C14_LowercaseBuyOfHeldSymbol ==
    /\ result.op = "add_stock"
    /\ result.symbol # upper(result.symbol)
    /\ result.held
    /\ Len(portfolio.stocks) = 1

\* ------------------------------------------------ the log: claims

IsPrefix(a, b) == Len(a) <= Len(b) /\ SubSeq(b, 1, Len(a)) = a

\* C15: the transaction log of a holding is append-only: across every call on
\* the holding, accepted or rejected, the log before the call is a prefix of
\* the log after it, so the log of any earlier state is a prefix of the log of
\* any later state.
C15_LogAppendOnly ==
    [][IsPrefix(stock.transactions, stock'.transactions)]_vars

\* A transaction has been added to a log that had an entry.
C15_SecondEntryLogged ==
    /\ result.op = "add_transaction"
    /\ Len(stock.transactions) >= 2

\* C16: transaction history and fees do not survive a save/load cycle:
\* whatever the saved holding's log was, each holding of the loaded portfolio
\* has at most one transaction, a fee-free buy of the saved net shares at the
\* saved average cost (and none when the saved shares or cost are not
\* positive).
C16_LoadedLogIsOneBuy ==
    result.op = "load" =>
        \A i \in DOMAIN result.value.stocks :
            LET loaded == result.value.stocks[i]
                saved == Get(result.file.stocks, loaded.key)
            IN  /\ loaded.key \in Keys(result.file.stocks)
                /\ loaded.value.transactions =
                       IF saved.shares > 0 /\ RatLt(Zero, saved.purchase_price)
                       THEN <<Transaction(saved.shares, saved.purchase_price,
                                          "buy", Zero)>>
                       ELSE <<>>

\* A holding whose log had a buy and a sell has been saved and loaded.
C16_HistoryLost ==
    /\ result.op = "load"
    /\ \E i \in DOMAIN portfolio.stocks :
          /\ Len(portfolio.stocks[i].value.transactions) = 2
          /\ Last(portfolio.stocks[i].value.transactions).transaction_type = "sell"
          /\ Len(Get(result.value.stocks,
                     portfolio.stocks[i].key).transactions) = 1

\* ------------------------------------------------ valuation: claims

\* Sum over the holdings of shares * quotes[symbol]
RECURSIVE Worth(_, _)
Worth(d, quotes) ==
    IF d = <<>> THEN Zero
    ELSE RatAdd(RatMul(RatInt(d[1].value.shares), quotes[d[1].key]),
                Worth(Tail(d), quotes))

\* Sum over the holdings of shares * average cost
RECURSIVE Basis(_)
Basis(d) ==
    IF d = <<>> THEN Zero
    ELSE RatAdd(RatMul(RatInt(d[1].value.shares), d[1].value.purchase_price),
                Basis(Tail(d)))

WeightsOf(draw) == Normalize(draw)
ReturnOf(draw) ==
    calculate_portfolio_performance(optimizer, WeightsOf(draw)).returns
StdOf(draw) == calculate_portfolio_performance(optimizer, WeightsOf(draw)).std
SharpeOf(draw, risk_free_rate) ==
    Sharpe(RatSub(ReturnOf(draw), risk_free_rate), StdOf(draw))
\* The dict that maps the columns to the weights of a draw
Allocation(draw) == Zip(optimizer.returns_data.columns, WeightsOf(draw))

\* C18: optimize_sharpe_ratio returns the weights of a draw whose Sharpe value
\* is the maximum of all draws.
C18_ReturnsWeightsOfMaxSharpe ==
    result.op = "optimize_sharpe_ratio" =>
        \E i \in DOMAIN result.draws :
            /\ \A j \in DOMAIN result.draws :
                  ~SharpeLt(SharpeOf(result.draws[i], result.risk_free_rate),
                            SharpeOf(result.draws[j], result.risk_free_rate))
            /\ result.value = Allocation(result.draws[i])

\* optimize_sharpe_ratio has returned after draws of different Sharpe values.
C18_SharpeOptimized ==
    /\ result.op = "optimize_sharpe_ratio"
    /\ \E i, j \in DOMAIN result.draws :
          SharpeLt(SharpeOf(result.draws[i], result.risk_free_rate),
                   SharpeOf(result.draws[j], result.risk_free_rate))

\* |return - target| of a draw
Distance(draw, target_return) == RatAbs(RatSub(ReturnOf(draw), target_return))

\* The outcome of optimize_target_return when the draws at the indices
\* `feasible` are the ones that count as within the tolerance.
TargetOutcome(feasible) ==
    /\ result.none <=> feasible = {}
    /\ ~result.none =>
          \E i \in feasible :
              /\ result.value = Allocation(result.draws[i])
              /\ \A j \in feasible :
                    ~StdLt(StdOf(result.draws[j]), StdOf(result.draws[i]))

ReturnedWeights ==
    \/ result.op = "optimize_sharpe_ratio"
    \/ result.op = "optimize_min_variance" /\ result.status = "ok"
    \/ result.op = "optimize_target_return" /\ ~result.none

\* C21: every weight mapping returned by any of the three optimizer modes has
\* exactly one entry per asset with return data, every weight >= 0, and the
\* weights sum to 1.
C21_WeightsNonNegativeSumToOne ==
    ReturnedWeights =>
        /\ [k \in DOMAIN result.value |-> result.value[k].key] =
               optimizer.returns_data.columns
        /\ \A k \in DOMAIN result.value : RatLe(Zero, result.value[k].value)
        /\ SumValues(result.value) = RatInt(1)

\* An optimization has returned a mapping for a portfolio none of whose
\* holdings has return data.
C21_NoAssetWithReturns ==
    /\ ReturnedWeights
    /\ portfolio.stocks # <<>>
    /\ optimizer.returns_data.columns = <<>>

\* ------------------------------------------------ reports: claims

ReportKeys == {"name", "total_value", "total_invested", "total_gain_loss",
               "total_return", "cash", "metrics", "allocation",
               "sector_allocation", "stocks", "num_stocks"}

\* C22: analyze never raises: every call returns a report with the keys name,
\* total_value, total_invested, total_gain_loss, total_return, cash, metrics,
\* allocation, sector_allocation, stocks and num_stocks, also when the
\* portfolio has holdings, every price is 0 and the cash is 0.
C22_AnalyzeReturnsReport ==
    result.op = "analyze" =>
        /\ result.status = "ok"
        /\ Keys(result.value) = ReportKeys

\* analyze was called on a portfolio that has holdings and no cash while every
\* price was 0.
C22_AnalyzedWorthless ==
    /\ result.op = "analyze"
    /\ portfolio.stocks # <<>>
    /\ portfolio.cash = Zero
    /\ \A k \in Keys(portfolio.stocks) : result.quotes[k] = Zero

MetricsReturned == result.op = "calculate_metrics" /\ result.status = "ok"

\* Whether the cumulative product of the series never falls below its running
\* maximum.
NeverBelowRunningMax(returns) ==
    \A i \in DOMAIN returns :
        CumProd(returns, i) =
            RunningMax([j \in DOMAIN returns |-> CumProd(returns, j)], i)

IsNumber(x) == DOMAIN x = {"num", "den"}

\* C25: the max_drawdown calculate_metrics reports is a number <= 0 for every
\* returns series, and is 0 for an empty series and for a series whose
\* cumulative product never falls below its running maximum.
C25_MaxDrawdownNotPositive ==
    MetricsReturned =>
        LET max_drawdown == Get(result.value, "max_drawdown")
        IN  /\ IsNumber(max_drawdown)
            /\ RatLe(max_drawdown, Zero)
            /\ NeverBelowRunningMax(result.returns) => max_drawdown = Zero

\* calculate_metrics was called on a series that falls below its running
\* maximum.
C25_SeriesFell ==
    /\ MetricsReturned
    /\ ~NeverBelowRunningMax(result.returns)

MetricsKeys == {"total_return", "annualized_return", "volatility",
                "sharpe_ratio", "max_drawdown", "var_95"}

\* C30: calculate_metrics reports the keys total_return, annualized_return,
\* volatility, sharpe_ratio, max_drawdown and var_95 whether or not the returns
\* series is empty, and every statistic derived from the returns is 0 when it
\* is empty.
C30_SameKeysZeroWhenEmpty ==
    MetricsReturned =>
        /\ Keys(result.value) = MetricsKeys
        /\ result.returns = <<>> =>
              \A k \in MetricsKeys \ {"total_return"} :
                  Get(result.value, k) = Zero

\* calculate_metrics was called on a portfolio that has holdings and no
\* returns.
C30_MetricsOfNoReturns ==
    /\ MetricsReturned
    /\ portfolio.stocks # <<>>
    /\ result.returns = <<>>

\* ------------------------------------------------ fetching: claims

FetchOps == {"get_current_price", "get_info", "get_historical_data"}

\* What each method returns when the provider fails.
Default(op) ==
    IF op = "get_current_price" THEN Zero
    ELSE IF op = "get_info" THEN [dict |-> <<>>]
    ELSE EmptyTable

\* C23: when the provider fails during get_current_price, get_info or
\* get_historical_data, the call returns 0, an empty mapping or an empty table
\* respectively, and no exception reaches the caller.
C23_FailureGivesDefault ==
    (result.op \in FetchOps /\ result.failed) =>
        /\ result.status = "ok"
        /\ result.value = Default(result.op)

\* The provider failed while an expired price was in the cache.
C23_FailedOnExpiredPrice ==
    /\ result.op = "get_current_price"
    /\ result.failed
    /\ result.held

TimeToLive(op) == IF op = "get_current_price" THEN 60 ELSE 3600

\* C24: after a fetch stored a value at time t, a call earlier than t + ttl
\* returns the stored value without contacting the provider, and a call at or
\* after t + ttl contacts the provider; ttl is 60 s for get_current_price and
\* 3600 s for get_info and get_historical_data, and each (period, interval)
\* pair of the history has a cache entry of its own.
C24_ServedFromCacheUntilExpiry ==
    /\ \A a, b \in HistoryArgs :
          a # b => cache_key(a[1], a[2]) # cache_key(b[1], b[2])
    /\ (result.op \in FetchOps /\ result.held) =>
          IF result.time - result.stored_at < TimeToLive(result.op)
          THEN /\ ~result.contacted
               /\ result.value = result.stored
          ELSE result.contacted

\* get_current_price was called less than 60 s after a fetch stored None.
C24_NoneStoredAndFresh ==
    /\ result.op = "get_current_price"
    /\ result.held
    /\ IsNone(result.stored)
    /\ result.time - result.stored_at < 60

\* ------------------------------------------------ the API: claims

\* The store after the requests are handled one at a time in the given order.
RECURSIVE Serial(_, _)
Serial(store, order) ==
    IF order = <<>> THEN store
    ELSE Serial(handler(requests[order[1]].op, store, store,
                        requests[order[1]].data).portfolios,
                Tail(order))

Orders ==
    {order \in [DOMAIN requests -> DOMAIN requests] :
        \A i, j \in DOMAIN requests : i # j => order[i] # order[j]}

AllDone == \A i \in DOMAIN requests : requests[i].pc = "done"

C27_CreateAddsNewEntry ==
    result.op = "create_portfolio" =>
        /\ result.portfolio_id \notin Keys(result.before)
        /\ Len(portfolios) = Len(result.before) + 1
        /\ \A k \in Keys(result.before) :
              k \in Keys(portfolios)
                  /\ Get(portfolios, k) = Get(result.before, k)

\* A portfolio was created after one was created and another deleted.
C27_CreatedAfterDelete ==
    /\ result.op = "create_portfolio"
    /\ \E i, j \in DOMAIN requests :
          /\ i # j
          /\ requests[i].op = "create_portfolio" /\ requests[i].pc = "done"
          /\ requests[j].op = "create_portfolio" /\ requests[j].pc = "done"
    /\ \E i \in DOMAIN requests :
          requests[i].op = "delete_portfolio" /\ requests[i].pc = "done"
    /\ <<"portfolio_", 1>> \notin Keys(result.before)

\* ------------------------------------------------ holdings and cash: claims

\* C28: after any sequence of add_stock, sell_stock and remove_stock calls,
\* accepted or rejected, every holding of the portfolio's mapping has more
\* than 0 shares; a holding of 0 shares is never left in the mapping.
C28_HoldingsHaveShares ==
    \A i \in DOMAIN portfolio.stocks : portfolio.stocks[i].value.shares > 0

\* A sale was rejected and its holding is still in the mapping.
C28_RejectedSaleOfHeld ==
    /\ result.op = "sell_stock"
    /\ result.status = "ValueError"
    /\ upper(result.symbol) \in Keys(portfolio.stocks)

\* C29: with non-negative quantities and prices, cash that is >= 0 is >= 0
\* after every add_stock, sell_stock and remove_stock call; so a portfolio
\* created with cash >= 0 never has negative cash.
C29_CashStaysNonNegative ==
    [][RatLe(Zero, portfolio.cash) => RatLe(Zero, portfolio'.cash)]_vars

\* A purchase that the cash did not cover was made and the cash is not
\* negative.
C29_UnaffordablePurchase ==
    /\ result.op = "add_stock"
    /\ RatLe(Zero, result.cash)
    /\ RatLt(result.cash, RatMul(RatInt(result.shares), result.price))
    /\ RatLe(Zero, portfolio.cash)

====
